---- MODULE Spec2Model ----
(***************************************************************************)
(* Model of web-scraper.py: the heuristic extractors (extract_name,        *)
(* extract_price, extract_image, extract_ingredients, extract_shades,      *)
(* extract_sales_proxies, extract_reviews), scrape_product, and the        *)
(* runner loop that saves the results incrementally.                       *)
(*                                                                         *)
(* A Python str is a sequence of one-character strings, so that lower(),   *)
(* strip(), substring tests and the regular expressions are computed.      *)
(* A parsed document (BeautifulSoup) is the sequence of its nodes in       *)
(* document order; each node names its parent (0: the soup itself).        *)
(***************************************************************************)
EXTENDS Integers, Sequences, FiniteSets, TLC

\* ------------------------------------------------------------ bounds
\* number of top-level fragments a generated page is built from
MaxFrags == 2
\* length of product_urls
MaxUrls == 2

\* ------------------------------------------------------------ Python str
NOT_FOUND == <<"N","/","A">>

\* the value of dict.get / Tag.get for a missing key
None == <<"<None>">>

UpperAlpha == <<"A","B","C","D","E","F","G","H","I","J","K","L","M","N","O","P","Q","R","S","T","U","V","W","X","Y","Z">>

LowerAlpha == <<"a","b","c","d","e","f","g","h","i","j","k","l","m","n","o","p","q","r","s","t","u","v","w","x","y","z">>

Digits == {"0","1","2","3","4","5","6","7","8","9"}

IsSpace(c) == c \in {" ", "\n", "\t"}

LowerChar(c) ==
  IF \E k \in 1..26 : UpperAlpha[k] = c
  THEN LowerAlpha[CHOOSE k \in 1..26 : UpperAlpha[k] = c]
  ELSE c

\* str.lower()
Lower(s) == [k \in 1..Len(s) |-> LowerChar(s[k])]

\* sub in s
Contains(s, sub) ==
  \E k \in 0..(Len(s) - Len(sub)) : SubSeq(s, k + 1, k + Len(sub)) = sub

\* str.strip()
Strip(s) ==
  LET keep == {k \in 1..Len(s) : ~IsSpace(s[k])}
  IN  IF keep = {} THEN <<>>
      ELSE SubSeq(s, CHOOSE k \in keep : \A m \in keep : k <= m,
                     CHOOSE k \in keep : \A m \in keep : k >= m)

\* sep.join(parts)
RECURSIVE Join(_, _)
Join(parts, sep) ==
  IF parts = <<>> THEN <<>>
  ELSE IF Len(parts) = 1 THEN parts[1]
  ELSE parts[1] \o sep \o Join(Tail(parts), sep)

\* s.replace(',', '')
StripCommas(s) == SelectSeq(s, LAMBDA c : c # ",")

\* end of the match of [\d,]* that starts at position p
RECURSIVE RunEnd(_, _)
RunEnd(s, p) ==
  IF p <= Len(s) /\ (s[p] \in Digits \/ s[p] = ",") THEN RunEnd(s, p + 1) ELSE p - 1

\* re.findall(r'(\d[\d,]*)', s), scanning from position p
RECURSIVE FindAllCounts(_, _)
FindAllCounts(s, p) ==
  IF p > Len(s) THEN <<>>
  ELSE IF s[p] \in Digits
       THEN LET e == RunEnd(s, p + 1)
            IN  <<SubSeq(s, p, e)>> \o FindAllCounts(s, e + 1)
       ELSE FindAllCounts(s, p + 1)

\* end of the match of \d+ that starts at position p
RECURSIVE DigitsEnd(_, _)
DigitsEnd(s, p) ==
  IF p <= Len(s) /\ s[p] \in Digits THEN DigitsEnd(s, p + 1) ELSE p - 1

\* re.search(r'(\d+)', s): group(1) of the first match, or None
SearchDigits(s) ==
  LET at == {k \in 1..Len(s) : s[k] \in Digits}
  IN  IF at = {} THEN None
      ELSE LET b == CHOOSE k \in at : \A m \in at : k <= m
           IN  SubSeq(s, b, DigitsEnd(s, b))

\* str(bool), as an f-string renders it
BoolStr(b) == IF b THEN <<"T","r","u","e">> ELSE <<"F","a","l","s","e">>

\* ------------------------------------------------------------ Python values
\* product_info holds values of several Python types
PyStr(s) == [t |-> "str", v |-> s]

PyBool(b) == [t |-> "bool", v |-> b]

PyList(l) == [t |-> "list", v |-> l]

\* ------------------------------------------------------------ parsed document
\* nodes: a Tag (name, attrs) or a NavigableString (text); the attribute
\* aria-label is the field aria_label
Tag(name, parent, attrs) ==
  [kind |-> "tag", name |-> name, parent |-> parent, attrs |-> attrs, text |-> <<>>]

Text(parent, s) ==
  [kind |-> "text", name |-> "", parent |-> parent, attrs |-> <<>>, text |-> s]

NoAttrs == <<>>

\* tag.has_attr(a)
has_attr(n, a) == a \in DOMAIN n.attrs

\* tag.get(a)
get(n, a) == IF has_attr(n, a) THEN n.attrs[a] ELSE None

\* Python truthiness of a str-or-None
Truthy(v) == v # None /\ v # <<>>

\* a or b
PyOr(a, b) == IF Truthy(a) THEN a ELSE b

RECURSIVE IsDescendant(_, _, _)
\* node j lies below node i (i = 0: the soup, every node lies below it)
IsDescendant(doc, i, j) ==
  IF i = 0 THEN TRUE
  ELSE LET p == doc[j].parent
       IN  IF p = 0 THEN FALSE ELSE p = i \/ IsDescendant(doc, i, p)

Indexes(doc) == [k \in 1..Len(doc) |-> k]

\* elem.descendants, in document order
descendants(doc, i) == SelectSeq(Indexes(doc), LAMBDA j : IsDescendant(doc, i, j))

\* the Tag descendants: what find / find_all / select look at
DescendantTags(doc, i) ==
  SelectSeq(descendants(doc, i), LAMBDA j : doc[j].kind = "tag")

\* the NavigableString descendants
DescendantStrings(doc, i) ==
  SelectSeq(descendants(doc, i), LAMBDA j : doc[j].kind = "text")

\* soup.select('a, b'): the tags with one of the names, in document order
select(doc, names) == SelectSeq(DescendantTags(doc, 0), LAMBDA j : doc[j].name \in names)

\* .stripped_strings of node i
stripped_strings(doc, i) ==
  LET strs == DescendantStrings(doc, i)
      all  == [k \in 1..Len(strs) |-> Strip(doc[strs[k]].text)]
  IN  SelectSeq(all, LAMBDA s : s # <<>>)

\* tag.get_text(separator=sep, strip=True)
get_text(doc, i, sep) == Join(stripped_strings(doc, i), sep)

\* NavigableString.get_text(strip=True), where the library defines it
string_get_text(doc, j) == Strip(doc[j].text)

\* ------------------------------------------------------------ state
VARIABLES
  navStringHasGetText, \* whether the installed bs4 gives NavigableString a get_text (hasattr, line 47)
  soup,                \* scrape_product: the parsed page
  pc,                  \* scrape_product: the statement reached
  product_info,        \* scrape_product: the record being built
  sales_proxies,       \* scrape_product: what extract_sales_proxies returned
  reviews,             \* scrape_product: what extract_reviews returned
  raised,              \* scrape_product: the exception that left it, or "none"
  product_urls,        \* runner: the input list
  idx,                 \* runner: position of the for loop in product_urls
  rpc,                 \* runner: the statement reached
  results,             \* runner: the accumulated records
  data,                \* runner: the record scrape_product returned in this iteration
  caught,              \* runner: the exception the except clause is about to report
  file,                \* the output CSV: whether it exists, and its rows
  log                  \* what the runner printed

vars == <<navStringHasGetText, soup, pc, product_info, sales_proxies, reviews, raised,
          product_urls, idx, rpc, results, data, caught, file, log>>

scrapeVars == <<soup, pc, product_info, sales_proxies, reviews, raised>>

runnerVars == <<product_urls, idx, rpc, results, data, caught, file, log>>

\* the url of the current iteration (the argument of scrape_product)
url == product_urls[idx]

\* ------------------------------------------------------------ extractors
\* the first element of hits, or 0 when there is none
First(hits) == IF hits = <<>> THEN 0 ELSE hits[1]

extract_name(doc) ==
  LET tag == First(SelectSeq(select(doc, {"h1", "h2"}), LAMBDA j : Len(get_text(doc, j, <<>>)) > 4))
  IN  IF tag # 0 THEN get_text(doc, tag, <<>>) ELSE NOT_FOUND

\* what the loop of extract_price tests on a tag
PriceText(doc, j) == Lower(get_text(doc, j, <<>>))

IsPrice(txt) == Contains(txt, <<"$">>) \/ Contains(txt, <<"u","s","d">>)

\* extract_price with an empty default instead of the sentinel
extract_price_empty_default(doc) ==
  LET tag == First(SelectSeq(select(doc, {"span", "div"}), LAMBDA j : IsPrice(PriceText(doc, j))))
  IN  IF tag # 0 THEN PriceText(doc, tag) ELSE <<>>

extract_price(doc) ==
  LET tag == First(SelectSeq(select(doc, {"span", "div"}), LAMBDA j : IsPrice(PriceText(doc, j))))
  IN  IF tag # 0 THEN PriceText(doc, tag) ELSE NOT_FOUND

\* soup.select_one('img[src*="product"]'), 0 for None
SelectProductImg(doc) ==
  First(SelectSeq(select(doc, {"img"}),
             LAMBDA j : has_attr(doc[j], "src") /\ Contains(doc[j].attrs["src"], <<"p","r","o","d","u","c","t">>)))

extract_image(doc) ==
  LET img_tag == SelectProductImg(doc)
  IN  IF img_tag = 0 THEN NOT_FOUND  \* None['src'] raises TypeError, caught by the bare except
      ELSE doc[img_tag].attrs["src"]

extract_ingredients(doc) ==
  LET tag == First(SelectSeq(select(doc, {"div", "section", "p"}),
                        LAMBDA j : Contains(Lower(get_text(doc, j, <<>>)), <<"i","n","g","r","e","d","i","e","n","t">>)))
  IN  IF tag # 0 THEN get_text(doc, tag, <<" ">>) ELSE NOT_FOUND

\* any(kw in c.lower() for c in tag['class'])
AnyClassToken(n, kw) ==
  \E k \in 1..Len(n.attrs["class"]) : Contains(Lower(n.attrs["class"][k]), kw)

\* the four find_all scans of extract_shades, concatenated
ShadeSelectors(doc) ==
  LET tags == DescendantTags(doc, 0)
      byAttr(a) == SelectSeq(tags, LAMBDA j : has_attr(doc[j], a)
                                               /\ Contains(Lower(doc[j].attrs[a]), <<"s","h","a","d","e">>))
  IN  SelectSeq(tags, LAMBDA j : has_attr(doc[j], "class") /\ AnyClassToken(doc[j], <<"s","h","a","d","e">>))
      \o byAttr("id") \o byAttr("aria_label") \o byAttr("title")

\* hasattr(descendant, 'get_text')
hasattr_get_text(n) == n.kind = "tag" \/ navStringHasGetText

\* the body of the inner loop of extract_shades on descendant d:
\* the set after it, or the exception it raises
HarvestOne(doc, d, acc) ==
  IF hasattr_get_text(doc[d])
  THEN LET txt == IF doc[d].kind = "tag" THEN get_text(doc, d, <<>>)
                  ELSE string_get_text(doc, d)
       IN  [exc |-> "none", val |-> IF txt # <<>> THEN acc \cup {txt} ELSE acc]
  ELSE IF doc[d].kind = "text"
       THEN [exc |-> "AttributeError", val |-> acc]  \* NavigableString has no has_attr
       ELSE IF has_attr(doc[d], "alt") THEN [exc |-> "none", val |-> acc \cup {doc[d].attrs["alt"]}]
       ELSE IF has_attr(doc[d], "title") THEN [exc |-> "none", val |-> acc \cup {doc[d].attrs["title"]}]
       ELSE [exc |-> "none", val |-> acc]

RECURSIVE Harvest(_, _, _)
\* both loops of extract_shades over the descendants still to visit
Harvest(doc, todo, acc) ==
  IF todo = <<>> THEN [exc |-> "none", val |-> acc]
  ELSE LET r == HarvestOne(doc, todo[1], acc)
       IN  IF r.exc # "none" THEN r ELSE Harvest(doc, Tail(todo), r.val)

RECURSIVE Flatten(_)
Flatten(seqs) == IF seqs = <<>> THEN <<>> ELSE seqs[1] \o Flatten(Tail(seqs))

\* shade_candidates after the loops
shade_candidates(doc) ==
  LET sel == ShadeSelectors(doc)
  IN  Harvest(doc, Flatten([k \in 1..Len(sel) |-> descendants(doc, sel[k])]), {})

\* list(a set): its members in an order the hash decides
Orderings(S) ==
  {f \in [1..Cardinality(S) -> S] : \A a, b \in 1..Cardinality(S) : a # b => f[a] # f[b]}

\* the returns of extract_shades without the fallback to ["N/A"]
extract_shades_no_fallback(doc) ==
  LET h == shade_candidates(doc)
  IN  IF h.exc # "none" THEN {[exc |-> h.exc, val |-> <<>>]}
      ELSE {[exc |-> "none", val |-> l] : l \in Orderings({x \in h.val : Strip(x) # <<>>})}

\* every return (or exception) of extract_shades
extract_shades(doc) ==
  LET h == shade_candidates(doc)
  IN  IF h.exc # "none" THEN {[exc |-> h.exc, val |-> <<>>]}
      ELSE LET shades == {x \in h.val : Strip(x) # <<>>}
           IN  IF shades # {} THEN {[exc |-> "none", val |-> l] : l \in Orderings(shades)}
               ELSE {[exc |-> "none", val |-> <<NOT_FOUND>>]}

\* soup.find_all(string=lambda text: text and ("review" in ... or "rating" in ...))
review_count_tags(doc) ==
  SelectSeq(DescendantStrings(doc, 0),
            LAMBDA j : doc[j].text # <<>>
                       /\ (Contains(Lower(doc[j].text), <<"r","e","v","i","e","w">>)
                           \/ Contains(Lower(doc[j].text), <<"r","a","t","i","n","g">>)))

\* the loop of lines 65-71
num_reviews(doc) ==
  LET hit == First(SelectSeq(review_count_tags(doc), LAMBDA j : FindAllCounts(doc[j].text, 1) # <<>>))
  IN  IF hit = 0 THEN NOT_FOUND ELSE StripCommas(FindAllCounts(doc[hit].text, 1)[1])

AnyString(strs, kw) == \E k \in 1..Len(strs) : Contains(Lower(strs[k]), kw)

stock_out_indicators == <<<<"o","u","t"," ","o","f"," ","s","t","o","c","k">>, <<"s","o","l","d"," ","o","u","t">>, <<"u","n","a","v","a","i","l","a","b","l","e">>>>

stock_status(doc) ==
  LET page_text == Lower(Join(stripped_strings(doc, 0), <<" ">>))
  IN  IF \E k \in 1..Len(stock_out_indicators) : Contains(page_text, stock_out_indicators[k])
      THEN <<"O","u","t"," ","o","f"," ","s","t","o","c","k">> ELSE <<"I","n"," ","s","t","o","c","k">>

extract_sales_proxies(doc) ==
  [number_of_reviews |-> PyStr(num_reviews(doc)),
   bestseller        |-> PyBool(AnyString(stripped_strings(doc, 0), <<"b","e","s","t","s","e","l","l","e","r">>)),
   stock_status      |-> PyStr(stock_status(doc))]

\* review containers: tags with a class token containing "review"
review_containers(doc) ==
  SelectSeq(DescendantTags(doc, 0),
            LAMBDA j : has_attr(doc[j], "class") /\ AnyClassToken(doc[j], <<"r","e","v","i","e","w">>))

\* container.find(lambda tag: has aria-label containing 'star'), 0 for None
FindAriaStar(doc, c) ==
  First(SelectSeq(DescendantTags(doc, c),
             LAMBDA j : has_attr(doc[j], "aria_label")
                        /\ Contains(Lower(doc[j].attrs["aria_label"]), <<"s","t","a","r">>)))

\* container.find('img', alt=lambda alt: alt and 'star' in alt.lower()), 0 for None
FindImgAltStar(doc, c) ==
  First(SelectSeq(DescendantTags(doc, c),
             LAMBDA j : doc[j].name = "img" /\ Truthy(get(doc[j], "alt"))
                        /\ Contains(Lower(get(doc[j], "alt")), <<"s","t","a","r">>)))

\* lines 101-106
star_rating(doc, c) ==
  LET first     == FindAriaStar(doc, c)
      rating_tag == IF first = 0 THEN FindImgAltStar(doc, c) ELSE first
  IN  IF rating_tag # 0
      THEN PyOr(get(doc[rating_tag], "aria_label"), get(doc[rating_tag], "alt"))
      ELSE NOT_FOUND

RECURSIVE FindByFirstClass(_, _, _)
\* container.find(lambda tag: tag.has_attr('class') and any(x in tag['class'][0].lower() for x in kws))
\* over the tags still to test: the tag found (0 for None), or the IndexError of [0] on an empty list
FindByFirstClass(doc, tags, kws) ==
  IF tags = <<>> THEN [exc |-> "none", val |-> 0]
  ELSE LET n == doc[tags[1]]
       IN  IF ~has_attr(n, "class") THEN FindByFirstClass(doc, Tail(tags), kws)
           ELSE IF n.attrs["class"] = <<>> THEN [exc |-> "IndexError", val |-> 0]
           ELSE IF \E kw \in kws : Contains(Lower(n.attrs["class"][1]), kw)
                THEN [exc |-> "none", val |-> tags[1]]
                ELSE FindByFirstClass(doc, Tail(tags), kws)

\* lines 127-134
helpful_votes(doc, c) ==
  LET strs == stripped_strings(doc, c)
      hits == SelectSeq(strs, LAMBDA s : Contains(Lower(s), <<"f","o","u","n","d"," ","t","h","i","s"," ","h","e","l","p","f","u","l">>)
                                         /\ SearchDigits(s) # None)
  IN  IF hits = <<>> THEN NOT_FOUND ELSE SearchDigits(hits[1])

\* one iteration of the loop of extract_reviews: the record appended, or the exception
ReviewOf(doc, c) ==
  LET date_tag     == FindByFirstClass(doc, DescendantTags(doc, c), {<<"d","a","t","e">>})
      reviewer_tag == FindByFirstClass(doc, DescendantTags(doc, c),
                                       {<<"a","u","t","h","o","r">>, <<"n","a","m","e">>, <<"l","o","c","a","t","i","o","n">>})
  IN  IF date_tag.exc # "none" THEN [exc |-> date_tag.exc, val |-> <<>>]
      ELSE IF reviewer_tag.exc # "none" THEN [exc |-> reviewer_tag.exc, val |-> <<>>]
      ELSE [exc |-> "none",
            val |-> [star_rating |-> star_rating(doc, c),
                     review_text |-> get_text(doc, c, <<" ">>),
                     review_date |-> IF date_tag.val # 0
                                     THEN get_text(doc, date_tag.val, <<>>) ELSE NOT_FOUND,
                     reviewer    |-> IF reviewer_tag.val # 0
                                     THEN get_text(doc, reviewer_tag.val, <<>>) ELSE NOT_FOUND,
                     verified_purchase |-> AnyString(stripped_strings(doc, c), <<"v","e","r","i","f","i","e","d"," ","p","u","r","c","h","a","s","e">>),
                     helpful_votes     |-> helpful_votes(doc, c)]]

RECURSIVE ReviewsLoop(_, _, _)
ReviewsLoop(doc, containers, reviews_data) ==
  IF containers = <<>> THEN [exc |-> "none", val |-> reviews_data]
  ELSE LET r == ReviewOf(doc, containers[1])
       IN  IF r.exc # "none" THEN r
           ELSE ReviewsLoop(doc, Tail(containers), Append(reviews_data, r.val))

extract_reviews(doc) == ReviewsLoop(doc, review_containers(doc), <<>>)

\* ------------------------------------------------------------ scrape_product
\* r['review_text'][:100]
SnippetLen == 100

Take(s, n) == SubSeq(s, 1, IF Len(s) < n THEN Len(s) ELSE n)

\* the f-string of line 171
snippet(r) ==
  r.star_rating \o <<" ","|"," ">> \o Take(r.review_text, SnippetLen) \o <<" ","|"," ">> \o r.review_date
  \o <<" ","|"," ","V","e","r","i","f","i","e","d",":"," ">> \o BoolStr(r.verified_purchase) \o <<" ","|"," ","H","e","l","p","f","u","l",":"," ">> \o r.helpful_votes

\* lines 169-174: the flattened reviews field
reviews_field(revs) ==
  LET reviews_summary == [k \in 1..Len(revs) |-> snippet(revs[k])]
  IN  IF reviews_summary # <<>> THEN Join(reviews_summary, <<" ","|","|"," ">>) ELSE NOT_FOUND

\* the dict literal of lines 155-163, given what extract_shades returned
ProductInfoLiteral(doc, u, shades) ==
  [url         |-> u,
   name        |-> PyStr(extract_name(doc)),
   price       |-> PyStr(extract_price(doc)),
   type        |-> PyStr(<<"F","o","u","n","d","a","t","i","o","n">>),
   shades      |-> PyList(shades),
   image       |-> PyStr(extract_image(doc)),
   ingredients |-> PyStr(extract_ingredients(doc))]

\* lines 173-174: update with the sales proxies, then set reviews
Finished(info, proxies, revs) ==
  [k \in DOMAIN info \cup DOMAIN proxies \cup {"reviews"} |->
     IF k = "reviews" THEN PyStr(reviews_field(revs))
     ELSE IF k \in DOMAIN proxies THEN proxies[k] ELSE info[k]]

\* every outcome of scrape_product on a fetched page: the record returned, or the exception
scrape_product(doc, u) ==
  LET revs == extract_reviews(doc)
  IN  {IF s.exc # "none" THEN [exc |-> s.exc, val |-> <<>>]
       ELSE IF revs.exc # "none" THEN [exc |-> revs.exc, val |-> <<>>]
       ELSE [exc |-> "none",
             val |-> Finished(ProductInfoLiteral(doc, u, s.val),
                              extract_sales_proxies(doc), revs.val)]
       : s \in extract_shades(doc)}

\* ------------------------------------------------------------ pages
\* top-level fragments of a page; parents are relative to the fragment (0: the soup)
Fragments == <<
  \* 1  <h1>Fit Me</h1>
  <<Tag("h1", 0, NoAttrs), Text(1, <<"F","i","t"," ","M","e">>)>>,
  \* 2  <h2> SPF </h2>
  <<Tag("h2", 0, NoAttrs), Text(1, <<" ","S","P","F"," ">>)>>,
  \* 3  <span>USD 12</span>
  <<Tag("span", 0, NoAttrs), Text(1, <<"U","S","D"," ","1","2">>)>>,
  \* 4  <img src="/product1.jpg">
  <<Tag("img", 0, [src |-> <<"/","p","r","o","d","u","c","t","1",".","j","p","g">>])>>,
  \* 5  <p>Ingredients: <b>Aqua</b></p>
  <<Tag("p", 0, NoAttrs), Text(1, <<"I","n","g","r","e","d","i","e","n","t","s",":"," ">>), Tag("b", 1, NoAttrs), Text(3, <<"A","q","u","a">>)>>,
  \* 6  <div class="swatch Shade-list"><span>Ivory</span><img alt="Sand" src="/s.png"></div>
  <<Tag("div", 0, [class |-> <<<<"s","w","a","t","c","h">>, <<"S","h","a","d","e","-","l","i","s","t">>>>]), Tag("span", 1, NoAttrs),
    Text(2, <<"I","v","o","r","y">>), Tag("img", 1, [alt |-> <<"S","a","n","d">>, src |-> <<"/","s",".","p","n","g">>])>>,
  \* 7  <ul id="Shades"><li>N/A</li></ul>
  <<Tag("ul", 0, [id |-> <<"S","h","a","d","e","s">>]), Tag("li", 1, NoAttrs), Text(2, <<"N","/","A">>)>>,
  \* 8  <div class="" title="shade"><img title="Tan" alt=" "></div>
  <<Tag("div", 0, [class |-> <<>>, title |-> <<"s","h","a","d","e">>]),
    Tag("img", 1, [title |-> <<"T","a","n">>, alt |-> <<" ">>])>>,
  \* 9  <p>4.8 stars (1,234 Reviews)</p>
  <<Tag("p", 0, NoAttrs), Text(1, <<"4",".","8"," ","s","t","a","r","s"," ","(","1",",","2","3","4"," ","R","e","v","i","e","w","s",")">>)>>,
  \* 10 <p>12 Ratings</p>
  <<Tag("p", 0, NoAttrs), Text(1, <<"1","2"," ","R","a","t","i","n","g","s">>)>>,
  \* 11 <p>Reviews</p>
  <<Tag("p", 0, NoAttrs), Text(1, <<"R","e","v","i","e","w","s">>)>>,
  \* 12 <div class="review"><img alt="5 stars" aria-label="Rating"><span class="date">May 1</span>
  \*      <span>Verified Purchase. 12 people found this helpful.</span></div>
  <<Tag("div", 0, [class |-> <<<<"r","e","v","i","e","w">>>>]),
    Tag("img", 1, [alt |-> <<"5"," ","s","t","a","r","s">>, aria_label |-> <<"R","a","t","i","n","g">>]),
    Tag("span", 1, [class |-> <<<<"d","a","t","e">>>>]), Text(3, <<"M","a","y"," ","1">>),
    Tag("span", 1, NoAttrs), Text(5, <<"V","e","r","i","f","i","e","d"," ","P","u","r","c","h","a","s","e","."," ","1","2"," ","p","e","o","p","l","e"," ","f","o","u","n","d"," ","t","h","i","s"," ","h","e","l","p","f","u","l",".">>)>>,
  \* 13 <div class="item Review-item"><img alt="3 star"><span aria-label="4 Stars"></span></div>
  <<Tag("div", 0, [class |-> <<<<"i","t","e","m">>, <<"R","e","v","i","e","w","-","i","t","e","m">>>>]),
    Tag("img", 1, [alt |-> <<"3"," ","s","t","a","r">>]),
    Tag("span", 1, [aria_label |-> <<"4"," ","S","t","a","r","s">>])>>,
  \* 14 <div class="review"><span class="">ok</span></div>
  <<Tag("div", 0, [class |-> <<<<"r","e","v","i","e","w">>>>]), Tag("span", 1, [class |-> <<>>]), Text(2, <<"o","k">>)>>,
  \* 15 <div>$9 Sold Out</div>
  <<Tag("div", 0, NoAttrs), Text(1, <<"$","9"," ","S","o","l","d"," ","O","u","t">>)>>,
  \* 16 <p>Bestseller</p>
  <<Tag("p", 0, NoAttrs), Text(1, <<"B","e","s","t","s","e","l","l","e","r">>)>>
>>

NoPage == <<>>

Shift(frag, off) ==
  [k \in 1..Len(frag) |-> [frag[k] EXCEPT !.parent = IF @ = 0 THEN 0 ELSE @ + off]]

RECURSIVE BuildFrom(_, _)
BuildFrom(choice, built) ==
  IF choice = <<>> THEN built
  ELSE BuildFrom(Tail(choice), built \o Shift(Fragments[choice[1]], Len(built)))

\* BeautifulSoup(driver.page_source, 'html.parser') of the page made of the chosen fragments
BuildPage(choice) == BuildFrom(choice, <<>>)

\* the pages the extractors are run on: up to MaxFrags fragments, in any order
PageChoices == UNION {[1..n -> 1..Len(Fragments)] : n \in 0..MaxFrags}

\* the pages the fetcher serves to the runner
ServedPages == <<<<1, 3, 6>>, <<14>>, <<12, 9>>>>

\* ------------------------------------------------------------ scrape_product, statement by statement
\* lines 155-163
BuildProductInfo ==
  /\ pc = "build"
  /\ \E s \in extract_shades(soup) :
       IF s.exc # "none"
       THEN /\ raised' = s.exc
            /\ pc' = "raised"
            /\ UNCHANGED product_info
       ELSE /\ product_info' = ProductInfoLiteral(soup, url, s.val)
            /\ pc' = "sales"
            /\ UNCHANGED raised
  /\ UNCHANGED <<navStringHasGetText, soup, sales_proxies, reviews, runnerVars>>

\* line 165
CallSalesProxies ==
  /\ pc = "sales"
  /\ sales_proxies' = extract_sales_proxies(soup)
  /\ pc' = "reviews"
  /\ UNCHANGED <<navStringHasGetText, soup, product_info, reviews, raised, runnerVars>>

\* line 166
CallReviews ==
  /\ pc = "reviews"
  /\ LET r == extract_reviews(soup)
     IN  IF r.exc # "none"
         THEN /\ raised' = r.exc
              /\ pc' = "raised"
              /\ UNCHANGED reviews
         ELSE /\ reviews' = r.val
              /\ pc' = "flatten"
              /\ UNCHANGED raised
  /\ UNCHANGED <<navStringHasGetText, soup, product_info, sales_proxies, runnerVars>>

\* lines 169-176
FlattenAndReturn ==
  /\ pc = "flatten"
  /\ product_info' = Finished(product_info, sales_proxies, reviews)
  /\ pc' = "return"
  /\ UNCHANGED <<navStringHasGetText, soup, sales_proxies, reviews, raised, runnerVars>>

NoFile == [exists |-> FALSE, rows |-> <<>>]

\* scrape_product called on its own, for the one url of a one-element list
RunnerIdle ==
  /\ product_urls = <<1>>
  /\ idx = 1
  /\ rpc = "idle"
  /\ results = <<>>
  /\ data = <<>>
  /\ caught = "none"
  /\ file = NoFile
  /\ log = <<>>

ExtractInit ==
  /\ navStringHasGetText \in BOOLEAN
  /\ \E choice \in PageChoices : soup = BuildPage(choice)
  /\ pc = "build"
  /\ product_info = <<>>
  /\ sales_proxies = <<>>
  /\ reviews = <<>>
  /\ raised = "none"
  /\ RunnerIdle

ExtractNext == BuildProductInfo \/ CallSalesProxies \/ CallReviews \/ FlattenAndReturn

\* scrape_product run on every generated page
ExtractSpec == ExtractInit /\ [][ExtractNext]_vars

\* ------------------------------------------------------------ runner (lines 180-208)
\* a file left by an earlier run: the runner never removes it
StaleFile == [exists |-> TRUE, rows |-> <<[url |-> 0]>>]

ScrapeIdle ==
  /\ soup = NoPage
  /\ pc = "idle"
  /\ product_info = <<>>
  /\ sales_proxies = <<>>
  /\ reviews = <<>>
  /\ raised = "none"

Init ==
  /\ navStringHasGetText \in BOOLEAN
  /\ ScrapeIdle
  /\ \E n \in 0..MaxUrls : product_urls = [k \in 1..n |-> k]
  /\ idx = 0
  /\ rpc = "for"
  /\ results = <<>>
  /\ data = <<>>
  /\ caught = "none"
  /\ file \in {NoFile, StaleFile}
  /\ log = <<>>

\* line 194 and the print of line 196: the next url, or the end of the loop
ForNext ==
  /\ rpc = "for"
  /\ IF idx < Len(product_urls)
     THEN /\ idx' = idx + 1
          /\ log' = Append(log, <<"Scraping", product_urls[idx + 1]>>)
          /\ rpc' = "scrape"
     ELSE /\ rpc' = "quit"
          /\ UNCHANGED <<idx, log>>
  /\ UNCHANGED <<navStringHasGetText, scrapeVars, product_urls, results, data, caught, file>>

\* line 150 (inside line 197): driver.get raises
FetchRaises ==
  /\ rpc = "scrape"
  /\ caught' = "WebDriverException"
  /\ rpc' = "except"
  /\ UNCHANGED <<navStringHasGetText, scrapeVars, product_urls, idx, results, data, file, log>>

\* line 197: the page is fetched and scrape_product returns or raises
ScrapeProduct ==
  /\ rpc = "scrape"
  /\ \E p \in 1..Len(ServedPages) :
       \E o \in scrape_product(BuildPage(ServedPages[p]), url) :
         IF o.exc # "none"
         THEN /\ caught' = o.exc
              /\ rpc' = "except"
              /\ UNCHANGED data
         ELSE /\ data' = o.val
              /\ rpc' = "append"
              /\ UNCHANGED caught
  /\ UNCHANGED <<navStringHasGetText, scrapeVars, product_urls, idx, results, file, log>>

\* line 198
AppendResult ==
  /\ rpc = "append"
  /\ results' = Append(results, data)
  /\ rpc' = "save"
  /\ UNCHANGED <<navStringHasGetText, scrapeVars, product_urls, idx, data, caught, file, log>>

\* lines 201-203 with the file opened for appending the new record only
SaveOkOnlyNewRecord ==
  /\ rpc = "save"
  /\ file' = [exists |-> TRUE, rows |-> <<data>>]
  /\ log' = Append(log, <<"Saved", Len(results)>>)
  /\ rpc' = "for"
  /\ UNCHANGED <<navStringHasGetText, scrapeVars, product_urls, idx, results, data, caught>>

\* lines 201-203: the whole of results is written over the file
SaveOk ==
  /\ rpc = "save"
  /\ file' = [exists |-> TRUE, rows |-> results]
  /\ log' = Append(log, <<"Saved", Len(results)>>)
  /\ rpc' = "for"
  /\ UNCHANGED <<navStringHasGetText, scrapeVars, product_urls, idx, results, data, caught>>

\* lines 201-202: to_csv raises; the file is as it was, or holds part of what was being written
SaveRaises ==
  /\ rpc = "save"
  /\ \/ UNCHANGED file
     \/ \E k \in 0..(Len(results) - 1) : file' = [exists |-> TRUE, rows |-> SubSeq(results, 1, k)]
  /\ caught' = "OSError"
  /\ rpc' = "except"
  /\ UNCHANGED <<navStringHasGetText, scrapeVars, product_urls, idx, results, data, log>>

\* an except clause that ends the batch
ExceptEndsBatch ==
  /\ rpc = "except"
  /\ log' = Append(log, <<"Error", url, caught>>)
  /\ rpc' = "quit"
  /\ UNCHANGED <<navStringHasGetText, scrapeVars, product_urls, idx, results, data, caught, file>>

\* lines 204-205
Except ==
  /\ rpc = "except"
  /\ log' = Append(log, <<"Error", url, caught>>)
  /\ rpc' = "for"
  /\ UNCHANGED <<navStringHasGetText, scrapeVars, product_urls, idx, results, data, caught, file>>

\* lines 207-208
DriverQuit ==
  /\ rpc = "quit"
  /\ log' = Append(log, <<"Scraping complete!">>)
  /\ rpc' = "done"
  /\ UNCHANGED <<navStringHasGetText, scrapeVars, product_urls, idx, results, data, caught, file>>

Next ==
  \/ ForNext
  \/ FetchRaises
  \/ ScrapeProduct
  \/ AppendResult
  \/ SaveOk
  \/ SaveRaises
  \/ Except
  \/ DriverQuit

Spec == Init /\ [][Next]_vars

\* the interpreter keeps executing the script: every statement returns or raises
FairSpec == Spec /\ WF_vars(Next)

\* ------------------------------------------------------------ claims: runner
\* the urls the runner announced ("Scraping: url"), in order
Attempted ==
  LET started == SelectSeq(log, LAMBDA e : e[1] = "Scraping")
  IN  [k \in 1..Len(started) |-> started[k][2]]

\* the urls whose exception the runner caught ("Error scraping url")
FailedUrls == {log[k][2] : k \in {m \in 1..Len(log) : log[m][1] = "Error"}}

\* the most recent save attempt raised
LastSaveRaised ==
  LET saves == SelectSeq(log, LAMBDA e : e[1] = "Saved" \/ (e[1] = "Error" /\ e[3] = "OSError"))
  IN  saves # <<>> /\ saves[Len(saves)][1] = "Error"

\* the file holds one row per record of results, in scrape order
FileHoldsResults == results = <<>> \/ (file.exists /\ file.rows = results)

\* C1: every url of the list is attempted exactly once, in list order, whatever
\* raised on the urls before it, and the runner then reaches the end of the batch
\* (driver.quit).
C1_PartialFailureIsolation ==
  /\ [](/\ Attempted = SubSeq(product_urls, 1, idx)
        /\ rpc \in {"quit", "done"} => Attempted = product_urls)
  /\ <>(rpc = "done")

C1_Witness ==
  /\ rpc = "done"
  /\ Len(product_urls) >= 2
  /\ 1 \in FailedUrls
  /\ Attempted = product_urls

\* C2: a url whose processing raised (in the fetch, in an extractor or in the
\* save of its iteration) has no row in the output file at any later point.
C2_FailedUrlAbsentFromFile ==
  \A u \in FailedUrls : \A r \in 1..Len(file.rows) : file.rows[r].url # u

ShadesKnown == pc \in {"sales", "reviews", "flatten", "return"}

SalesKnown == pc \in {"reviews", "flatten", "return"}

ReviewsKnown == pc \in {"flatten", "return"}

\* C4: number_of_reviews is the review count written in the first qualifying text
\* node, commas stripped: "4.8 stars (1,234 Reviews)" as the only qualifying node
\* gives "1234"; no qualifying node, or none with a digit run, gives "N/A".
C4_ReviewCount ==
  SalesKnown =>
    LET tags == review_count_tags(soup)
    IN  /\ (Len(tags) = 1 /\ soup[tags[1]].text = <<"4",".","8"," ","s","t","a","r","s"," ","(","1",",","2","3","4"," ","R","e","v","i","e","w","s",")">>)
             => sales_proxies.number_of_reviews.v = <<"1","2","3","4">>
        /\ (\A k \in 1..Len(tags) : \A c \in 1..Len(soup[tags[k]].text) :
              soup[tags[k]].text[c] \notin Digits)
             => sales_proxies.number_of_reviews.v = NOT_FOUND

\* C5: no exception crosses an extractor's boundary, so scrape_product cannot fail
\* once the page is fetched.
C5_NoExtractorRaises == raised = "none" /\ pc # "raised"

ScalarFields ==
  {"name", "price", "type", "image", "ingredients", "number_of_reviews", "bestseller",
   "stock_status"}

IsNonEmptyStr(x) == x.t = "str" /\ x.v # <<>>

\* C6 as stated: every field of the returned record other than url, shades and
\* reviews is present and is a non-empty string (the sentinel "N/A" included).
C6_ScalarFieldsAreStrings ==
  pc = "return" =>
    \A f \in ScalarFields : f \in DOMAIN product_info /\ IsNonEmptyStr(product_info[f])

\* C6 as amended: every field of the returned record other than url, shades,
\* reviews and bestseller is present and is a non-empty string (the sentinel "N/A"
\* included); bestseller is present and is a boolean.
C6_ScalarFieldsAreStringsButBestseller ==
  pc = "return" =>
    /\ \A f \in ScalarFields \ {"bestseller"} :
         f \in DOMAIN product_info /\ IsNonEmptyStr(product_info[f])
    /\ "bestseller" \in DOMAIN product_info
    /\ product_info["bestseller"].t = "bool"
    /\ product_info["bestseller"].v \in BOOLEAN

C6_Witness ==
  /\ pc = "return"
  /\ product_info["price"].v = NOT_FOUND
  /\ product_info["name"].v # NOT_FOUND
  /\ product_info["bestseller"].v = TRUE

\* the non-blank strings the loops of extract_shades harvested
NonBlankHarvested == {x \in shade_candidates(soup).val : Strip(x) # <<>>}

Range(s) == {s[k] : k \in 1..Len(s)}

\* what C7 says of every returned shades list
ShadesWellFormed(shades) ==
  /\ shades # <<>>
  /\ \A a, b \in 1..Len(shades) : a # b => shades[a] # shades[b]
  /\ \A a \in 1..Len(shades) : Strip(shades[a]) # <<>>

\* C7 as stated: the shades are never empty, hold no duplicate and no blank
\* string, and are ["N/A"] exactly when nothing non-blank was harvested.
C7_ShadesSentinelIffNothingHarvested ==
  ShadesKnown =>
    /\ ShadesWellFormed(product_info["shades"].v)
    /\ product_info["shades"].v = <<NOT_FOUND>> <=> NonBlankHarvested = {}

\* C7 as amended: the shades are never empty, hold no duplicate and no blank
\* string, are ["N/A"] when nothing non-blank was harvested and otherwise hold
\* exactly the harvested non-blank strings (so they are ["N/A"] also when the only
\* harvested string is the text "N/A").
C7_ShadesSentinelOrHarvested ==
  ShadesKnown =>
    /\ ShadesWellFormed(product_info["shades"].v)
    /\ NonBlankHarvested = {} => product_info["shades"].v = <<NOT_FOUND>>
    /\ NonBlankHarvested # {} => Range(product_info["shades"].v) = NonBlankHarvested

C7_Witness ==
  /\ ShadesKnown
  /\ Cardinality(NonBlankHarvested) = 2
  /\ Len(product_info["shades"].v) = 2

\* the star_rating C8 describes: the aria-label of the first descendant whose
\* aria-label contains "star", else the alt of the first img whose alt does
ClaimedStarRating(doc, c) ==
  IF FindAriaStar(doc, c) # 0 THEN doc[FindAriaStar(doc, c)].attrs["aria_label"]
  ELSE IF FindImgAltStar(doc, c) # 0 THEN doc[FindImgAltStar(doc, c)].attrs["alt"]
  ELSE NOT_FOUND

\* C8: the star_rating of every review is the aria-label containing "star" of the
\* first such descendant, else the alt containing "star" of the first such img
\* (whatever other aria-label that img carries), else "N/A".
C8_StarRating ==
  ReviewsKnown =>
    \A k \in 1..Len(reviews) :
      reviews[k].star_rating = ClaimedStarRating(soup, review_containers(soup)[k])

\* C9: the non-blank alt and title of an image inside a shade candidate are
\* members of the returned shades.
C9_ImageAltAndTitleHarvested ==
  ShadesKnown =>
    \A e \in Range(ShadeSelectors(soup)) : \A d \in Range(DescendantTags(soup, e)) :
      \A a \in {"alt", "title"} :
        (soup[d].name = "img" /\ has_attr(soup[d], a) /\ Strip(soup[d].attrs[a]) # <<>>)
          => soup[d].attrs[a] \in Range(product_info["shades"].v)

\* C10: the price is the text of the first span or div whose lower-cased stripped
\* text contains "$" or "usd", with the characters and the letter case it has in
\* the element, and "N/A" when there is none.
C10_PriceIsRawText ==
  ShadesKnown =>
    LET tag == First(SelectSeq(select(soup, {"span", "div"}),
                          LAMBDA j : IsPrice(Lower(get_text(soup, j, <<>>)))))
    IN  product_info["price"].v = IF tag # 0 THEN get_text(soup, tag, <<>>) ELSE NOT_FOUND
====
